---------------------------- MODULE Spec2Model ----------------------------
(***************************************************************************)
(* Model of kernel.py: KernelConnection, its AsyncCommunicator worker, the *)
(* blocking exchange _communicate, the sync request get_complete and the   *)
(* reply callback built by execute_code.                                   *)
(***************************************************************************)
EXTENDS Naturals, Sequences, FiniteSets

(* ------------------------------ bounds -------------------------------- *)

\* Number of execute_code submissions explored.
MaxTasks == 2
\* Number of get_complete calls explored.
MaxSyncCalls == 2
\* Longest frame sequence a channel delivers to an execute exchange.
MaxExecFrames == 4
\* Longest frame sequence a channel delivers to a single sync exchange.
MaxWireFrames == 3
\* Number of handler invocations whose outcome the environment chooses.
MaxOuts == 2
\* Longest code string submitted when the text handler is explored.
MaxCodeLen == 3
\* Largest max_shown_input_length setting explored.
MaxShown == 3

(* --------------------------- message types ---------------------------- *)

MSG_TYPE_EXECUTE_REQUEST == "execute_request"
MSG_TYPE_EXECUTE_RESULT == "execute_result"
MSG_TYPE_EXECUTE_REPLY == "execute_reply"
MSG_TYPE_COMPLETE_REQUEST == "complete_request"
MSG_TYPE_COMPLETE_REPLY == "complete_reply"
MSG_TYPE_DISPLAY_DATA == "display_data"

\* str.endswith("_reply") over the message types the model's kernel emits.
EndsWithReply(t) == t \in {"execute_reply", "complete_reply"}

(* ------------------------------ frames -------------------------------- *)

\* A decoded frame: json.loads(sock.recv()).  A frame may lack the
\* top-level "msg_type" key; its content may lack "data" or "matches".
Frame(mt, ht, c) == [msg_type |-> mt, header |-> [msg_type |-> ht], content |-> c]
FrameNoTop(ht, c) == [header |-> [msg_type |-> ht], content |-> c]

\* A MIME-keyed payload is a dict; its iteration order is the sequence order.
Item(m, v) == [mime |-> m, val |-> v]

FDisplay == Frame("display_data", "display_data",
                  [data |-> <<Item("image/png", "P1"), Item("application/unknown", "U1"),
                              Item("text/plain", "T0")>>])
FDisplayRev == Frame("display_data", "display_data",
                  [data |-> <<Item("application/unknown", "U2"), Item("image/png", "P2")>>])
FDisplayNoData == Frame("display_data", "display_data", [metadata |-> "m"])
FResult == Frame("execute_result", "execute_result",
                  [data |-> <<Item("text/plain", "T1"), Item("image/png", "P3")>>])
FExecuteReply == Frame("execute_reply", "execute_reply", [status |-> "ok"])
FCompleteReply == Frame("complete_reply", "complete_reply",
                  [matches |-> <<"foo", "foobar">>, status |-> "ok"])
FCompleteNoMatches == Frame("complete_reply", "complete_reply", [status |-> "error"])
\* header.msg_type and the top-level msg_type disagree, or the latter is absent.
FHeaderOnlyReply == Frame("status", "complete_reply", [matches |-> <<"bar">>, status |-> "ok"])
FTopOnlyReply == Frame("execute_reply", "status", [status |-> "ok"])
FNoTop == FrameNoTop("execute_reply", [status |-> "ok"])

\* The frames a kernel sends on the execute runs and on the sync runs.
ExecFrames == {FDisplay, FDisplayRev, FDisplayNoData, FResult, FExecuteReply}
WireFrames == {FDisplay, FResult, FExecuteReply, FCompleteReply, FCompleteNoMatches,
               FHeaderOnlyReply, FTopOnlyReply, FNoTop}

RECURSIVE SeqsUpTo(_, _)
SeqsUpTo(S, n) ==
    IF n = 0 THEN {<<>>}
    ELSE LET shorter == SeqsUpTo(S, n - 1)
         IN  shorter \cup {Append(s, x) : s \in {t \in shorter : Len(t) = n - 1}, x \in S}

\* What a freshly opened channel does: create_connection or send may raise
\* (open = "refused"); otherwise the kernel delivers frames and then either
\* closes the channel (end = "close", recv raises) or sends no more while
\* keeping it open (end = "hang", recv blocks).
Refused == [open |-> "refused", frames |-> <<>>, end |-> "close"]
Closing(s) == [open |-> "ok", frames |-> s, end |-> "close"]
Silent(s) == [open |-> "ok", frames |-> s, end |-> "hang"]
Channels(F, n) ==
    {Closing(s) : s \in SeqsUpTo(F, n)} \cup {Silent(s) : s \in SeqsUpTo(F, n)}
    \cup {Refused}

(* ------------------------- pure functions ----------------------------- *)

\* extract_content(messages, msg_type)
RECURSIVE extract_content(_, _)
extract_content_prepends(messages, msg_type) ==
    IF messages = <<>> THEN <<>>
    ELSE LET message == Head(messages)
             rest == extract_content(Tail(messages), msg_type)
         IN  IF message.header.msg_type = msg_type
             THEN rest \o <<message.content>>
             ELSE rest
extract_content(messages, msg_type) ==
    IF messages = <<>> THEN <<>>
    ELSE LET message == Head(messages)
             rest == extract_content(Tail(messages), msg_type)
         IN  IF message.header.msg_type = msg_type
             THEN <<message.content>> \o rest
             ELSE rest

\* extract_data(result): result['data'], or "" (nothing to iterate) on KeyError.
extract_data(result) ==
    IF "data" \in DOMAIN result THEN result.data ELSE <<>>


\* The outcome of one _communicate(message) call on a channel:
\*   st = "return": the list `replies` is returned;
\*   st = "raise":  an exception leaves the call (err names it);
\*   st = "block":  sock.recv() never returns.
\* `read` is the number of frames taken from the channel.
RECURSIVE recv_loop(_, _, _)
recv_loop(chan, i, replies) ==
    IF i > Len(chan.frames)
    THEN IF chan.end = "close"
         THEN [st |-> "raise", err |-> "ConnectionClosed", replies |-> replies, read |-> i - 1]
         ELSE [st |-> "block", err |-> "none", replies |-> replies, read |-> i - 1]
    ELSE LET reply == chan.frames[i]
             appended == Append(replies, reply)
         IN  IF "msg_type" \notin DOMAIN reply
             THEN [st |-> "raise", err |-> "KeyError", replies |-> appended, read |-> i]
             ELSE IF EndsWithReply(reply.msg_type)
                  THEN [st |-> "return", err |-> "none", replies |-> appended, read |-> i]
                  ELSE recv_loop(chan, i + 1, appended)

\* KernelConnection._communicate(message) on the channel create_connection opened.
communicate_partial_on_close(chan) ==
    IF chan.open = "refused"
    THEN [st |-> "raise", err |-> "ConnectionRefused", replies |-> <<>>, read |-> 0]
    ELSE LET r == recv_loop(chan, 1, <<>>)
         IN  IF r.st = "raise" /\ r.err = "ConnectionClosed"
             THEN [r EXCEPT !.st = "return", !.err = "none"]
             ELSE r
communicate(chan) ==
    IF chan.open = "refused"
    THEN [st |-> "raise", err |-> "ConnectionRefused", replies |-> <<>>, read |-> 0]
    ELSE recv_loop(chan, 1, <<>>)

(* ------------------------------ state --------------------------------- *)

VARIABLES
    message_queue,        \* AsyncCommunicator.message_queue: <<message, callback>> pairs
    wpc,                  \* where AsyncCommunicator.run is: "get", "communicate", "callback"
    wtask,                \* the (message, callback) pair run() holds
    wsock,                \* the channel _communicate opened for run(), and what was sent on it
    wreply,               \* the list _communicate returned to run()
    cpc,                  \* per caller thread: "idle" or "communicate" (inside get_complete)
    csock,                \* per caller thread: the channel its _communicate opened
    cret,                 \* per caller thread: how its last get_complete call ended
    sync_calls,           \* number of get_complete calls made
    dequeued,             \* msg_ids in the order message_queue.get() returned them
    fired,                \* the callback invocations, in order
    printed,              \* what run() printed in its except clause, in order
    last_cb,              \* what the last callback invocation did
    in_flight,            \* the _communicate calls started and not yet returned or raised
    handle_display_data,  \* self._handle_display_data
    run_commands,         \* self._run_commands
    max_shown_input_length \* self._max_shown_input_length

vars == <<message_queue, wpc, wtask, wsock, wreply, cpc, csock, cret, sync_calls,
          dequeued, fired, printed, last_cb, in_flight, handle_display_data, run_commands,
          max_shown_input_length>>

Callers == {"t1", "t2"}
Codes == {<<"x">>, <<"a", "b", "c">>}
CompleteCodes == {<<"f", "o">>}

None == [none |-> TRUE]


(* ----------------------- the execute callback ------------------------- *)

\* What the j-th handler invocation of a callback run does: it returns
\* ("ok"), raises KeyError, or raises another exception ("raise").
Outcomes == {"ok", "KeyError", "raise"}
Out(outs, j) == IF j <= Len(outs) THEN outs[j] ELSE "ok"

\* A callback run in progress: n handler invocations so far, the events so
\* far, and status "ok" while no exception has left the callback.
Acc0 == [n |-> 0, trace |-> <<>>, status |-> "ok"]
\* _handle_text(code, result): the lines it writes to the view.
handle_text_truncates_at_length(code, result) ==
    <<"input:",
      IF Len(code) >= max_shown_input_length
      THEN SubSeq(code, 1, max_shown_input_length) \o <<".", ".", ".">>
      ELSE code,
      "output:", result, "---", "\n">>
handle_text(code, result) ==
    <<"input:",
      IF Len(code) > max_shown_input_length
      THEN SubSeq(code, 1, max_shown_input_length) \o <<".", ".", ".">>
      ELSE code,
      "output:", result, "---", "\n">>

\* _handle_png_display_data(data): the line it writes to the view.
handle_png_display_data(data) == <<"Saved the figure to '<out_file>'.">>

\* What a handler call that returns has written to the view (what a call
\* that raises wrote before raising is not tracked).
Wrote(handler, args, out) ==
    IF out # "ok" THEN <<>>
    ELSE IF handler = "_handle_text" THEN handle_text(args[1], args[2])
    ELSE handle_png_display_data(args[1])

Skip(reg, item) ==
    [ev |-> "skip", reg |-> reg, mime |-> item.mime, handler |-> "none",
     args |-> <<>>, out |-> "none", wrote |-> <<>>]
Call(reg, item, handler, args, out) ==
    [ev |-> "call", reg |-> reg, mime |-> item.mime, handler |-> handler,
     args |-> args, out |-> out, wrote |-> Wrote(handler, args, out)]

\* for mime_type in display_data: try: handler(...) except KeyError: pass
RECURSIVE display_data_loop(_, _, _, _)
display_data_loop_keyerror_escapes(display_data, j, outs, acc) ==
    IF acc.status # "ok" \/ j > Len(display_data) THEN acc
    ELSE LET item == display_data[j]
         IN  IF item.mime \notin DOMAIN handle_display_data
             THEN [acc EXCEPT !.status = "KeyError"]
             ELSE LET out == Out(outs, acc.n + 1)
                      ev == Call("display", item, handle_display_data[item.mime],
                                 <<item.val>>, out)
                  IN  display_data_loop(display_data, j + 1, outs,
                          [n |-> acc.n + 1, trace |-> Append(acc.trace, ev),
                           status |-> IF out = "raise" THEN "HandlerFault" ELSE "ok"])
display_data_loop_handler_keyerror_escapes(display_data, j, outs, acc) ==
    IF acc.status # "ok" \/ j > Len(display_data) THEN acc
    ELSE LET item == display_data[j]
         IN  IF item.mime \notin DOMAIN handle_display_data
             THEN display_data_loop(display_data, j + 1, outs,
                      [acc EXCEPT !.trace = Append(@, Skip("display", item))])
             ELSE LET out == Out(outs, acc.n + 1)
                      ev == Call("display", item, handle_display_data[item.mime],
                                 <<item.val>>, out)
                  IN  display_data_loop(display_data, j + 1, outs,
                          [n |-> acc.n + 1, trace |-> Append(acc.trace, ev),
                           status |-> IF out = "raise" THEN "HandlerFault"
                                      ELSE IF out = "KeyError" THEN "KeyError" ELSE "ok"])
display_data_loop(display_data, j, outs, acc) ==
    IF acc.status # "ok" \/ j > Len(display_data) THEN acc
    ELSE LET item == display_data[j]
         IN  IF item.mime \notin DOMAIN handle_display_data
             THEN display_data_loop(display_data, j + 1, outs,
                      [acc EXCEPT !.trace = Append(@, Skip("display", item))])
             ELSE LET out == Out(outs, acc.n + 1)
                      ev == Call("display", item, handle_display_data[item.mime],
                                 <<item.val>>, out)
                  IN  display_data_loop(display_data, j + 1, outs,
                          [n |-> acc.n + 1, trace |-> Append(acc.trace, ev),
                           status |-> IF out = "raise" THEN "HandlerFault" ELSE "ok"])

\* for display_content in display_contents: ...
RECURSIVE display_contents_loop(_, _, _, _)
display_contents_loop(display_contents, i, outs, acc) ==
    IF acc.status # "ok" \/ i > Len(display_contents) THEN acc
    ELSE display_contents_loop(display_contents, i + 1, outs,
             display_data_loop(extract_data(display_contents[i]), 1, outs, acc))

\* for mime_type in data: if mime_type in self._run_commands: try: ... except KeyError: pass
RECURSIVE run_commands_loop(_, _, _, _, _)
run_commands_loop(code, data, j, outs, acc) ==
    IF acc.status # "ok" \/ j > Len(data) THEN acc
    ELSE LET item == data[j]
         IN  IF item.mime \notin DOMAIN run_commands
             THEN run_commands_loop(code, data, j + 1, outs,
                      [acc EXCEPT !.trace = Append(@, Skip("result", item))])
             ELSE LET out == Out(outs, acc.n + 1)
                      ev == Call("result", item, run_commands[item.mime],
                                 <<code, item.val>>, out)
                  IN  run_commands_loop(code, data, j + 1, outs,
                          [n |-> acc.n + 1, trace |-> Append(acc.trace, ev),
                           status |-> IF out = "raise" THEN "HandlerFault" ELSE "ok"])

\* The step after the display loop: result, = result_content and its dispatch.
result_step(code, reply, outs, acc) ==
    LET result_content == extract_content(reply, MSG_TYPE_EXECUTE_RESULT)
    IN  IF Len(result_content) = 0 THEN acc
        ELSE IF Len(result_content) # 1 THEN [acc EXCEPT !.status = "ValueError"]
        ELSE run_commands_loop(code, extract_data(result_content[1]), 1, outs, acc)

\* callback(reply) of execute_code(code).
callback(code, reply, outs) ==
    LET shown == display_contents_loop(
                     extract_content(reply, MSG_TYPE_DISPLAY_DATA), 1, outs, Acc0)
    IN  IF shown.status # "ok" THEN shown
        ELSE result_step(code, reply, outs, shown)


(* ----------------------------- envelopes ------------------------------ *)

\* _gen_header(msg_type) and the message dict built around it.  msg_id, the
\* fresh uuid4 token, is modelled as the pair <<msg_type, k>> of the k-th
\* request of that type: no two envelopes share one.
Message(msg_type, msg_id, code) ==
    [header |-> [msg_id |-> msg_id, msg_type |-> msg_type],
     channel |-> "shell",
     content |-> [code |-> code]]

\* Queue.put: the pair joins the queue at its tail.
PutFront(queue, pair) == <<pair>> \o queue
PutDropsPending(queue, pair) == <<pair>>
Put(queue, pair) == Append(queue, pair)

(* ------------------------------- Init --------------------------------- *)

\* The max_shown_input_length setting a Connection is constructed with.
ShownInputLength == 2

\* KernelConnection.__init__: the worker is started and blocks on the empty
\* queue; the two registries are filled.
Init ==
    /\ message_queue = <<>>
    /\ wpc = "get"
    /\ wtask = None
    /\ wsock = None
    /\ wreply = <<>>
    /\ cpc = [c \in Callers |-> "idle"]
    /\ csock = [c \in Callers |-> None]
    /\ cret = [c \in Callers |-> None]
    /\ sync_calls = 0
    /\ dequeued = <<>>
    /\ fired = <<>>
    /\ printed = <<>>
    /\ last_cb = None
    /\ in_flight = {}
    /\ handle_display_data = [m \in {"image/png"} |-> "_handle_png_display_data"]
    /\ run_commands = [m \in {"text/plain"} |-> "_handle_text"]
    /\ max_shown_input_length = ShownInputLength

(* ------------------------- caller operations -------------------------- *)

\* execute_code(code): build the envelope and the callback closure over
\* `code`, and _async_communicate them.
ExecuteCode_rebinds_code(code) ==
    /\ Len(message_queue) + Len(dequeued) < MaxTasks
    /\ message_queue' = Put([i \in DOMAIN message_queue |->
                                [message_queue[i] EXCEPT !.callback.code = code]],
           [message |-> Message(MSG_TYPE_EXECUTE_REQUEST,
                                <<MSG_TYPE_EXECUTE_REQUEST,
                                  Len(message_queue) + Len(dequeued) + 1>>, code),
            callback |-> [code |-> code]])
    /\ wtask' = IF wtask = None THEN wtask ELSE [wtask EXCEPT !.callback.code = code]
    /\ UNCHANGED <<wpc, wsock, wreply, cpc, csock, cret, sync_calls, dequeued,
                   fired, printed, last_cb, in_flight, handle_display_data, run_commands,
                   max_shown_input_length>>
ExecuteCode(code) ==
    /\ Len(message_queue) + Len(dequeued) < MaxTasks
    /\ message_queue' = Put(message_queue,
           [message |-> Message(MSG_TYPE_EXECUTE_REQUEST,
                                <<MSG_TYPE_EXECUTE_REQUEST,
                                  Len(message_queue) + Len(dequeued) + 1>>, code),
            callback |-> [code |-> code]])
    /\ UNCHANGED <<wpc, wtask, wsock, wreply, cpc, csock, cret, sync_calls, dequeued,
                   fired, printed, last_cb, in_flight, handle_display_data, run_commands,
                   max_shown_input_length>>

\* How get_complete ends once its _communicate call has: the exception of
\* _communicate, the ValueError of `content, = ...`, the KeyError of
\* content["matches"], or the returned matches.
get_complete_result_takes_first(r) ==
    IF r.st = "raise" THEN [kind |-> "raise", err |-> r.err, val |-> <<>>, comm |-> r]
    ELSE LET contents == extract_content(r.replies, MSG_TYPE_COMPLETE_REPLY)
         IN  IF Len(contents) = 0
             THEN [kind |-> "raise", err |-> "ValueError", val |-> <<>>, comm |-> r]
             ELSE IF "matches" \notin DOMAIN contents[1]
                  THEN [kind |-> "raise", err |-> "KeyError", val |-> <<>>, comm |-> r]
                  ELSE [kind |-> "return", err |-> "none", val |-> contents[1].matches,
                        comm |-> r]
get_complete_result(r) ==
    IF r.st = "raise" THEN [kind |-> "raise", err |-> r.err, val |-> <<>>, comm |-> r]
    ELSE LET contents == extract_content(r.replies, MSG_TYPE_COMPLETE_REPLY)
         IN  IF Len(contents) # 1
             THEN [kind |-> "raise", err |-> "ValueError", val |-> <<>>, comm |-> r]
             ELSE IF "matches" \notin DOMAIN contents[1]
                  THEN [kind |-> "raise", err |-> "KeyError", val |-> <<>>, comm |-> r]
                  ELSE [kind |-> "return", err |-> "none", val |-> contents[1].matches,
                        comm |-> r]

\* get_complete(code, cursor_pos) up to its call of _communicate, which
\* opens a fresh channel for the request.
GetCompleteCall_waits_for_worker(c) ==
    /\ cpc[c] = "idle"
    /\ wpc = "get" /\ message_queue = <<>>
    /\ sync_calls < MaxSyncCalls
    /\ \E code \in CompleteCodes :
          csock' = [csock EXCEPT ![c] =
                       [sent |-> Message(MSG_TYPE_COMPLETE_REQUEST,
                                         <<MSG_TYPE_COMPLETE_REQUEST, sync_calls + 1>>, code),
                        chan |-> None]]
    /\ sync_calls' = sync_calls + 1
    /\ cpc' = [cpc EXCEPT ![c] = "communicate"]
    /\ cret' = [cret EXCEPT ![c] = None]
    /\ in_flight' = in_flight \cup
           {[owner |-> c, msg_id |-> <<MSG_TYPE_COMPLETE_REQUEST, sync_calls + 1>>]}
    /\ UNCHANGED <<message_queue, wpc, wtask, wsock, wreply, dequeued, fired, printed,
                   last_cb, handle_display_data, run_commands, max_shown_input_length>>
GetCompleteCall(c) ==
    /\ cpc[c] = "idle"
    /\ sync_calls < MaxSyncCalls
    /\ \E code \in CompleteCodes :
          csock' = [csock EXCEPT ![c] =
                       [sent |-> Message(MSG_TYPE_COMPLETE_REQUEST,
                                         <<MSG_TYPE_COMPLETE_REQUEST, sync_calls + 1>>, code),
                        chan |-> None]]
    /\ sync_calls' = sync_calls + 1
    /\ cpc' = [cpc EXCEPT ![c] = "communicate"]
    /\ cret' = [cret EXCEPT ![c] = None]
    /\ in_flight' = in_flight \cup
           {[owner |-> c, msg_id |-> <<MSG_TYPE_COMPLETE_REQUEST, sync_calls + 1>>]}
    /\ UNCHANGED <<message_queue, wpc, wtask, wsock, wreply, dequeued, fired, printed,
                   last_cb, handle_display_data, run_commands,
                   max_shown_input_length>>

\* The rest of get_complete: the channel behaves as `chan`, _communicate
\* returns or raises, the single complete_reply content is unpacked and its
\* matches returned.  A call whose channel stays silent does not end.
GetCompleteReturn(c, chans) ==
    /\ cpc[c] = "communicate"
    /\ \E chan \in chans :
          LET r == communicate(chan)
          IN  /\ r.st # "block"
              /\ cret' = [cret EXCEPT ![c] = get_complete_result(r)]
              /\ csock' = [csock EXCEPT ![c].chan = chan]
    /\ cpc' = [cpc EXCEPT ![c] = "idle"]
    /\ in_flight' = in_flight \ {[owner |-> c, msg_id |-> csock[c].sent.header.msg_id]}
    /\ UNCHANGED <<message_queue, wpc, wtask, wsock, wreply, sync_calls,
                   dequeued, fired, printed, last_cb, handle_display_data, run_commands,
                   max_shown_input_length>>

(* ---------------------- AsyncCommunicator.run ------------------------- *)

\* run() takes the next pair only at the head of its loop.
WorkerTakesWhileBusy == wpc \in {"get", "communicate"}
WorkerAtGet == wpc = "get"

\* Where run() continues after `except Exception as err: print(err)`.
AfterExceptExit == "dead"
AfterExcept == "get"

\* message, callback = self.message_queue.get(), then the call of
\* self._kernel._communicate(message), which opens a fresh channel.
WorkerGet ==
    /\ WorkerAtGet
    /\ message_queue # <<>>
    /\ LET pair == Head(message_queue)
       IN  /\ wtask' = pair
           /\ dequeued' = Append(dequeued, pair.message.header.msg_id)
           /\ wsock' = [sent |-> pair.message, chan |-> None]
           /\ in_flight' = in_flight \cup
                  {[owner |-> "worker", msg_id |-> pair.message.header.msg_id]}
    /\ message_queue' = Tail(message_queue)
    /\ wpc' = "communicate"
    /\ UNCHANGED <<wreply, cpc, csock, cret, sync_calls, fired, printed, last_cb,
                   handle_display_data, run_commands,
                   max_shown_input_length>>

\* sock.recv() can still return or raise: the channel run()'s exchange
\* reads from has not fallen silent.
RecvTimesOut == TRUE
RecvCanEnd == wsock.chan = None

\* The kernel stops sending on the open channel before a terminal reply:
\* from here on sock.recv() blocks inside run()'s _communicate call.
WorkerHang(chans) ==
    /\ wpc = "communicate"
    /\ wsock.chan = None
    /\ \E chan \in chans :
          /\ communicate(chan).st = "block"
          /\ wsock' = [wsock EXCEPT !.chan = chan]
    /\ UNCHANGED <<message_queue, wpc, wtask, wreply, cpc, csock, cret, sync_calls,
                   dequeued, fired, printed, last_cb, in_flight, handle_display_data,
                   run_commands, max_shown_input_length>>

\* The channel behaves as `chan`: _communicate returns its list to run(), or
\* raises into run()'s except clause.  On a channel that stays silent it
\* does neither.
WorkerReturn(chans) ==
    /\ wpc = "communicate"
    /\ RecvCanEnd
    /\ \E chan \in chans :
          LET r == communicate(chan)
          IN  /\ r.st # "block"
              /\ wsock' = [wsock EXCEPT !.chan = chan]
              /\ IF r.st = "return"
                 THEN /\ wreply' = r.replies
                      /\ wpc' = "callback"
                      /\ printed' = printed
                 ELSE /\ wreply' = <<>>
                      /\ wpc' = AfterExcept
                      /\ printed' = Append(printed,
                             [msg_id |-> wtask.message.header.msg_id, at |-> "communicate",
                              err |-> r.err])
    /\ in_flight' = in_flight \ {[owner |-> "worker", msg_id |-> wsock.sent.header.msg_id]}
    /\ UNCHANGED <<message_queue, wtask, cpc, csock, cret, sync_calls,
                   dequeued, fired, last_cb, handle_display_data, run_commands,
                   max_shown_input_length>>

\* callback(reply), and the except clause when the callback raises.
WorkerCallback_registers_handler(outss) ==
    /\ wpc = "callback"
    /\ \E outs \in outss :
          \E acc \in {callback(wtask.callback.code, wreply, outs)} :
              /\ last_cb' = [code |-> wtask.callback.code, reply |-> wreply,
                             outs |-> outs, acc |-> acc]
              /\ fired' = Append(fired,
                     [msg_id |-> wtask.message.header.msg_id,
                      reply_of |-> wsock.sent.header.msg_id,
                      status |-> acc.status])
    /\ wpc' = "get"
    /\ run_commands' = [m \in DOMAIN run_commands \cup {"image/png"} |-> "_handle_text"]
    /\ UNCHANGED <<message_queue, wtask, wsock, wreply, cpc, csock, cret, printed,
                   sync_calls, dequeued, in_flight, handle_display_data,
                   max_shown_input_length>>
WorkerCallback(outss) ==
    /\ wpc = "callback"
    /\ \E outs \in outss :
          \E acc \in {callback(wtask.callback.code, wreply, outs)} :
              /\ last_cb' = [code |-> wtask.callback.code, reply |-> wreply,
                             outs |-> outs, acc |-> acc]
              /\ fired' = Append(fired,
                     [msg_id |-> wtask.message.header.msg_id,
                      reply_of |-> wsock.sent.header.msg_id,
                      status |-> acc.status])
              /\ IF acc.status = "ok"
                 THEN /\ printed' = printed
                      /\ wpc' = "get"
                 ELSE /\ printed' = Append(printed,
                             [msg_id |-> wtask.message.header.msg_id, at |-> "callback",
                              err |-> acc.status])
                      /\ wpc' = AfterExcept
    /\ UNCHANGED <<message_queue, wtask, wsock, wreply, cpc, csock, cret,
                   sync_calls, dequeued, in_flight, handle_display_data, run_commands,
                   max_shown_input_length>>

(* -------------------------- specifications ---------------------------- *)

\* What the channels do on the dispatcher runs: the worker's exchange is
\* refused, answered in full (with or without a result), cut short by a
\* close, or left without an answer; a sync exchange likewise.
CoreChannels == {Refused, Closing(<<FExecuteReply>>),
                 Closing(<<FDisplay, FResult, FExecuteReply>>),
                 Closing(<<FResult>>), Silent(<<>>), Silent(<<FResult>>)}
SyncChannels == {Refused, Closing(<<FCompleteReply>>), Silent(<<>>)}
CoreOuts == {<<>>, <<"raise">>}

\* The dispatcher with its producers and the sync callers, every exchange
\* of the worker being answered or failing.
NextAnswered ==
    \/ \E code \in Codes : ExecuteCode(code)
    \/ WorkerGet
    \/ WorkerReturn(CoreChannels)
    \/ WorkerCallback(CoreOuts)
    \/ \E c \in Callers : GetCompleteCall(c)
    \/ \E c \in Callers : GetCompleteReturn(c, SyncChannels)

\* The same, with kernels that may leave an exchange of the worker unanswered.
Next ==
    \/ NextAnswered
    \/ WorkerHang(CoreChannels)

Spec == Init /\ [][Next]_vars

\* The dispatcher with producers and one sync caller; the worker thread runs
\* whenever it can, and every exchange and callback it starts ends (the
\* exchange by a terminal reply, a refusal or a close; the callback by
\* returning or raising).
FairChannels == {Refused, Closing(<<FExecuteReply>>), Closing(<<FResult, FExecuteReply>>),
                 Closing(<<FResult>>)}

NextFair ==
    \/ \E code \in Codes : ExecuteCode(code)
    \/ WorkerGet
    \/ WorkerReturn(FairChannels)
    \/ WorkerCallback(CoreOuts)
    \/ GetCompleteCall("t1")
    \/ GetCompleteReturn("t1", SyncChannels)

SpecFair ==
    /\ Init /\ [][NextFair]_vars
    /\ WF_vars(WorkerGet)
    /\ WF_vars(WorkerReturn(FairChannels))
    /\ WF_vars(WorkerCallback(CoreOuts))


\* One execute_code submission whose exchange meets every channel behaviour
\* and whose callback meets every handler behaviour, within the bounds.
ExecChannels == Channels(ExecFrames, MaxExecFrames)
ExecOuts == SeqsUpTo(Outcomes, MaxOuts)

InitExec ==
    /\ Init!2 /\ Init!3 /\ Init!4 /\ Init!5 /\ Init!6 /\ Init!7 /\ Init!8 /\ Init!9
    /\ Init!10 /\ Init!11 /\ Init!12 /\ Init!13 /\ Init!14 /\ Init!15 /\ Init!16
    /\ Init!17
    /\ \E code \in Codes :
          message_queue = Put(<<>>, [message |-> Message(MSG_TYPE_EXECUTE_REQUEST,
                                                         <<MSG_TYPE_EXECUTE_REQUEST, 1>>, code),
                                     callback |-> [code |-> code]])

NextExec ==
    \/ WorkerGet
    \/ WorkerReturn(ExecChannels)
    \/ WorkerCallback(ExecOuts)

SpecExec == InitExec /\ [][NextExec]_vars

\* get_complete calls of one caller thread whose exchange meets every
\* channel behaviour within the bounds, ill-formed frames included.
WireChannels == Channels(WireFrames, MaxWireFrames)

NextWire ==
    \/ GetCompleteCall("t1")
    \/ GetCompleteReturn("t1", WireChannels)

SpecWire == Init /\ [][NextWire]_vars

\* One submission of any code up to MaxCodeLen characters under any
\* max_shown_input_length setting up to MaxShown, answered by a text/plain
\* result that _handle_text renders.
TextCodes == SeqsUpTo({"a", "b"}, MaxCodeLen)
TextChannels == {Closing(<<FResult, FExecuteReply>>)}

InitText ==
    /\ Init!2 /\ Init!3 /\ Init!4 /\ Init!5 /\ Init!6 /\ Init!7 /\ Init!8 /\ Init!9
    /\ Init!10 /\ Init!11 /\ Init!12 /\ Init!13 /\ Init!14 /\ Init!15 /\ Init!16
    /\ max_shown_input_length \in 0..MaxShown
    /\ \E code \in TextCodes :
          message_queue = Put(<<>>, [message |-> Message(MSG_TYPE_EXECUTE_REQUEST,
                                                         <<MSG_TYPE_EXECUTE_REQUEST, 1>>, code),
                                     callback |-> [code |-> code]])

NextText ==
    \/ WorkerGet
    \/ WorkerReturn(TextChannels)
    \/ WorkerCallback({<<>>})

SpecText == InitText /\ [][NextText]_vars


(* ------------------------------ claims -------------------------------- *)

\* The position of an execute_code submission in the order of the puts.
PutIndex(msg_id) == msg_id[2]
\* The indices of the envelopes of one header.msg_type in a reply list.
OfType(reply, t) == {i \in DOMAIN reply : reply[i].header.msg_type = t}
\* The task run() holds and has not finished with.
Processing(msg_id) ==
    wpc \in {"communicate", "callback"} /\ wtask.message.header.msg_id = msg_id

\* C1: callbacks fire in the order of the submissions: of two callbacks that
\* have fired, the one fired first belongs to the task that was put first.
C1_FifoCallbacks ==
    \A i, j \in DOMAIN fired :
        i < j => PutIndex(fired[i].msg_id) < PutIndex(fired[j].msg_id)

\* Two submissions whose callbacks have both fired.
C1_Witness == Len(fired) >= 2

\* C2 as stated: at most one _communicate call, of the worker or of any
\* caller thread, has started and not yet returned or raised.
C2_Original == Cardinality(in_flight) <= 1

\* C2 amended: at most one _communicate call started by the worker has not
\* yet returned or raised; sync exchanges of caller threads are not counted.
C2_OneWorkerExchange ==
    Cardinality({e \in in_flight : e.owner = "worker"}) <= 1

\* The worker's exchange is in flight, a further task waits in the queue,
\* and a caller's sync exchange is in flight beside it.
C2_Witness ==
    /\ \E e \in in_flight : e.owner = "worker"
    /\ \E e \in in_flight : e.owner \in Callers
    /\ message_queue # <<>>

\* C3: every task the worker has finished with was dequeued once, and its
\* callback was invoked exactly once, with the reply list of the exchange of
\* its own envelope; no callback is invoked twice or with another's reply.
C3_Original ==
    /\ \A i, j \in DOMAIN dequeued : dequeued[i] = dequeued[j] => i = j
    /\ \A i \in DOMAIN fired : fired[i].reply_of = fired[i].msg_id
    /\ \A i \in DOMAIN dequeued :
           LET n == Cardinality({k \in DOMAIN fired : fired[k].msg_id = dequeued[i]})
           IN  IF Processing(dequeued[i]) THEN n <= 1 ELSE n = 1

\* C4: a task whose exchange failed has had its callback invoked (with the
\* failure as an explicit error result).
C4_Original ==
    \A i \in DOMAIN printed :
        printed[i].at = "communicate" =>
            \E k \in DOMAIN fired : fired[k].msg_id = printed[i].msg_id

\* C5: the step in which a task fails (its exchange raises or its callback
\* raises, and run() prints the error) leaves the worker waiting on the
\* queue, with the tasks queued behind the failed one still in it.
C5_WorkerSurvivesFailure ==
    [][Len(printed') > Len(printed) =>
          /\ wpc' = "get"
          /\ message_queue' = message_queue]_vars

\* A task failed, and a task put after it was dequeued, exchanged and its
\* callback invoked.
C5_Witness ==
    \E i \in DOMAIN printed, k \in DOMAIN fired :
        PutIndex(fired[k].msg_id) > PutIndex(printed[i].msg_id)

\* The first frame of a sequence whose header.msg_type ends with "_reply"
\* (0 when there is none).
FirstHeaderReply(frames) ==
    LET hits == {i \in DOMAIN frames : EndsWithReply(frames[i].header.msg_type)}
    IN  IF hits = {} THEN 0 ELSE CHOOSE i \in hits : \A k \in hits : i <= k

\* The first frame of a sequence whose top-level msg_type ends with "_reply"
\* (0 when there is none).
FirstTopReply(frames) ==
    LET hits == {i \in DOMAIN frames :
                    "msg_type" \in DOMAIN frames[i] /\ EndsWithReply(frames[i].msg_type)}
    IN  IF hits = {} THEN 0 ELSE CHOOSE i \in hits : \A k \in hits : i <= k

\* A get_complete call of a caller thread has ended.
Ended(c) == cpc[c] = "idle" /\ cret[c] # None

\* C6: when the channel delivers a frame whose header.msg_type ends with
\* "_reply", the exchange returns exactly the frames up to and including the
\* first such frame, reading none after it.
C6_Original ==
    \A c \in Callers :
        (Ended(c) /\ csock[c].chan.open = "ok"
                  /\ FirstHeaderReply(csock[c].chan.frames) > 0) =>
            LET k == FirstHeaderReply(csock[c].chan.frames)
            IN  /\ cret[c].comm.st = "return"
                /\ cret[c].comm.replies = SubSeq(csock[c].chan.frames, 1, k)
                /\ cret[c].comm.read = k

C8_ExactlyOneCompleteReply ==
    \A c \in Callers :
        (Ended(c) /\ cret[c].comm.st = "return") =>
            LET hits == OfType(cret[c].comm.replies, MSG_TYPE_COMPLETE_REPLY)
            IN  /\ cret[c].kind = "return" =>
                    /\ Cardinality(hits) = 1
                    /\ \A i \in hits : cret[c].val = cret[c].comm.replies[i].content.matches
                /\ Cardinality(hits) # 1 =>
                    /\ cret[c].kind = "raise"
                    /\ cret[c].val = <<>>

\* A reply list with two complete_reply envelopes, each carrying matches,
\* on which get_complete raised.
C8_Witness ==
    \E c \in Callers :
        /\ Ended(c) /\ cret[c].comm.st = "return"
        /\ Cardinality(OfType(cret[c].comm.replies, MSG_TYPE_COMPLETE_REPLY)) = 2
        /\ \A i \in OfType(cret[c].comm.replies, MSG_TYPE_COMPLETE_REPLY) :
               "matches" \in DOMAIN cret[c].comm.replies[i].content
        /\ cret[c].kind = "raise"

\* The MIME items of the display_data envelopes of a reply, in order.
RECURSIVE DisplayItems(_)
DisplayItems(reply) ==
    IF reply = <<>> THEN <<>>
    ELSE (IF Head(reply).header.msg_type = MSG_TYPE_DISPLAY_DATA
             /\ "data" \in DOMAIN Head(reply).content
          THEN Head(reply).content.data ELSE <<>>) \o DisplayItems(Tail(reply))

IsCall(e, reg) == e.ev = "call" /\ e.reg = reg
Registered(item) == item.mime \in DOMAIN handle_display_data

\* C9: on a reply with two or more execute_result envelopes the callback
\* fails at the result step (ValueError), no result handler is invoked, and
\* for every display_data item with a registered MIME key the display
\* handler has been invoked with its value.
C9_Original ==
    (last_cb # None
       /\ Cardinality(OfType(last_cb.reply, MSG_TYPE_EXECUTE_RESULT)) >= 2) =>
        /\ last_cb.acc.status = "ValueError"
        /\ \A k \in DOMAIN last_cb.acc.trace : ~IsCall(last_cb.acc.trace[k], "result")
        /\ SelectSeq(DisplayItems(last_cb.reply), Registered)
             = [k \in DOMAIN SelectSeq(last_cb.acc.trace, LAMBDA e : IsCall(e, "display")) |->
                   LET e == SelectSeq(last_cb.acc.trace, LAMBDA e : IsCall(e, "display"))[k]
                   IN  [mime |-> e.mime, val |-> e.args[1]]]


\* The events of a callback run that belong to one registry's loop.
EventsOf(trace, reg) == SelectSeq(trace, LAMBDA e : e.reg = reg)
\* The MIME items of the execute_result envelopes of a reply, in order.
RECURSIVE ResultItems(_)
ResultItems(reply) ==
    IF reply = <<>> THEN <<>>
    ELSE (IF Head(reply).header.msg_type = MSG_TYPE_EXECUTE_RESULT
             /\ "data" \in DOMAIN Head(reply).content
          THEN Head(reply).content.data ELSE <<>>) \o ResultItems(Tail(reply))
\* The events follow the items in order, an item without a registry entry
\* is skipped (no handler is called for it), and the loop goes on after it.
SkipsAndGoesOn(events, items, registry) ==
    /\ Len(events) <= Len(items)
    /\ \A k \in DOMAIN events :
           /\ events[k].mime = items[k].mime
           /\ (events[k].ev = "skip") <=> (items[k].mime \notin DOMAIN registry)
           /\ (events[k].ev = "skip" /\ k < Len(items)) => Len(events) > k

\* C10: a MIME key without an entry in the registry of its loop is skipped:
\* no handler is called for it, no KeyError leaves the callback, and the
\* loop goes on to the next key.  When no called handler raises and the
\* reply has at most one execute_result, the callback completes normally
\* having called, once each and in order, exactly the handlers of the keys
\* that have an entry.
C10_UnmappedMimeSkipped ==
    last_cb # None =>
        LET acc == last_cb.acc
            shown == EventsOf(acc.trace, "display")
            run == EventsOf(acc.trace, "result")
            results == OfType(last_cb.reply, MSG_TYPE_EXECUTE_RESULT)
        IN  /\ acc.status # "KeyError"
            /\ SkipsAndGoesOn(shown, DisplayItems(last_cb.reply), handle_display_data)
            /\ run # <<>> => SkipsAndGoesOn(run, ResultItems(last_cb.reply), run_commands)
            /\ ((\A k \in DOMAIN acc.trace : acc.trace[k].out # "raise")
                   /\ Cardinality(results) <= 1) =>
                  /\ acc.status = "ok"
                  /\ Len(shown) = Len(DisplayItems(last_cb.reply))
                  /\ Len(run) = Len(ResultItems(last_cb.reply))

\* A display_data payload whose first key is application/unknown and whose
\* second is image/png: the first was skipped, the png handler was called
\* once, and the callback completed normally.
C10_Witness ==
    /\ last_cb # None
    /\ last_cb.reply = <<FDisplayRev, FExecuteReply>>
    /\ last_cb.acc.status = "ok"
    /\ Len(last_cb.acc.trace) = 2
    /\ last_cb.acc.trace[1].ev = "skip"
    /\ last_cb.acc.trace[1].mime = "application/unknown"
    /\ last_cb.acc.trace[2].ev = "call"
    /\ last_cb.acc.trace[2].handler = "_handle_png_display_data"
    /\ last_cb.acc.trace[2].args = <<"P2">>


\* The registered items of a payload, as the handler calls they stand for.
Calls(events) ==
    [k \in DOMAIN SelectSeq(events, LAMBDA e : e.ev = "call") |->
        LET e == SelectSeq(events, LAMBDA x : x.ev = "call")[k]
        IN  [mime |-> e.mime, val |-> e.args[Len(e.args)]]]
RegisteredResult(item) == item.mime \in DOMAIN run_commands

\* C11: when a handler call raises, the handlers of the remaining MIME keys
\* of the block, of the later display_data blocks and of the execute_result
\* block are still called: every item with a registered key gets its call.
C11_Original ==
    (last_cb # None
       /\ \E k \in DOMAIN last_cb.acc.trace : last_cb.acc.trace[k].out \in {"raise", "KeyError"}) =>
        /\ Calls(EventsOf(last_cb.acc.trace, "display"))
             = SelectSeq(DisplayItems(last_cb.reply), Registered)
        /\ Cardinality(OfType(last_cb.reply, MSG_TYPE_EXECUTE_RESULT)) = 1 =>
             Calls(EventsOf(last_cb.acc.trace, "result"))
               = SelectSeq(ResultItems(last_cb.reply), RegisteredResult)

\* A get_complete call of a thread can start, and can end.
SyncCanStart(c) == ENABLED GetCompleteCall(c)
SyncCanEnd(c) == ENABLED GetCompleteReturn(c, SyncChannels)

\* C12: whatever the dispatcher is doing, an idle caller thread can start a
\* get_complete call (while calls are left in the model) and a thread inside
\* one can end it; and no step of a get_complete call touches the queue, the
\* worker or what the worker has done.
C12_SyncIndependent ==
    /\ [](\A c \in Callers :
            /\ (cpc[c] = "idle" /\ sync_calls < MaxSyncCalls) => SyncCanStart(c)
            /\ cpc[c] = "communicate" => SyncCanEnd(c))
    /\ [][cpc' # cpc =>
            UNCHANGED <<message_queue, dequeued, wpc, wtask, wsock, wreply, fired,
                        printed, last_cb>>]_vars

\* A get_complete call has returned its matches while the worker sits in an
\* exchange that will never be answered and a task waits in the queue; the
\* other caller's exchange is in flight beside the worker's.
C12_Witness ==
    /\ wpc = "communicate" /\ wsock.chan # None
    /\ message_queue # <<>>
    /\ \E c \in Callers : Ended(c) /\ cret[c].kind = "return"
    /\ \E c \in Callers : cpc[c] = "communicate"

\* The message types a reply list is searched for.
QueryTypes == {MSG_TYPE_EXECUTE_REQUEST, MSG_TYPE_EXECUTE_RESULT, MSG_TYPE_EXECUTE_REPLY,
               MSG_TYPE_COMPLETE_REQUEST, MSG_TYPE_COMPLETE_REPLY, MSG_TYPE_DISPLAY_DATA}
\* The k-th smallest element of a set of indices.
Kth(I, k) == CHOOSE i \in I : Cardinality({j \in I : j < i}) = k - 1

\* C13: for the reply list handed to the callback and every message type,
\* extract_content returns one content per envelope of that type, each the
\* content of the matching envelope at the same rank, in arrival order.
C13_ExtractContent ==
    last_cb # None =>
        \A t \in QueryTypes :
            LET out == extract_content(last_cb.reply, t)
                hits == OfType(last_cb.reply, t)
            IN  /\ Len(out) = Cardinality(hits)
                /\ \A k \in 1..Len(out) : out[k] = last_cb.reply[Kth(hits, k)].content

\* Two display_data envelopes with different contents, an envelope of
\* another type between them.
C13_Witness ==
    /\ last_cb # None
    /\ last_cb.reply = <<FDisplay, FResult, FDisplayRev, FExecuteReply>>


\* The _handle_text calls of the last callback that returned.
TextCalls ==
    IF last_cb = None THEN <<>>
    ELSE SelectSeq(last_cb.acc.trace,
                   LAMBDA e : e.ev = "call" /\ e.handler = "_handle_text" /\ e.out = "ok")
\* The first n characters of a string.
Prefix(str, n) == [i \in 1..n |-> str[i]]

\* C14: the input shown by the text handler is the code itself when the
\* code has at most max_shown_input_length characters (exactly that many
\* included), and otherwise its first max_shown_input_length characters
\* followed by "...".
C14_TruncationBoundary ==
    \A k \in DOMAIN TextCalls :
        LET code == TextCalls[k].args[1]
            shown == TextCalls[k].wrote[2]
            L == max_shown_input_length
        IN  /\ Len(code) <= L => shown = code
            /\ Len(code) > L =>
                 /\ Len(shown) = L + 3
                 /\ Prefix(shown, L) = Prefix(code, L)
                 /\ \A i \in L + 1..L + 3 : shown[i] = "."

\* A non-empty code of exactly max_shown_input_length characters was shown
\* unmodified.
C14_Witness ==
    /\ TextCalls # <<>>
    /\ Len(TextCalls[1].args[1]) = max_shown_input_length
    /\ max_shown_input_length >= 1
    /\ TextCalls[1].wrote[2] = TextCalls[1].args[1]


\* Submission k waits in the queue; submission k has been taken by the
\* worker, which starts its exchange in the same step.
Queued(k) ==
    \E i \in DOMAIN message_queue : PutIndex(message_queue[i].message.header.msg_id) = k
Attempted(k) ==
    \E i \in DOMAIN dequeued : PutIndex(dequeued[i]) = k

\* C15: the queue changes only by a put at its tail or by the worker taking
\* its head and starting the exchange for it; and with the worker scheduled
\* fairly and every exchange and callback ending, each submission that
\* waits in the queue is eventually taken by the worker.
C15_NoCancellation ==
    /\ [][message_queue' # message_queue =>
            \/ /\ Len(message_queue') = Len(message_queue) + 1
               /\ SubSeq(message_queue', 1, Len(message_queue)) = message_queue
               /\ UNCHANGED <<dequeued, wpc, wtask>>
            \/ /\ message_queue # <<>>
               /\ message_queue' = Tail(message_queue)
               /\ dequeued' = Append(dequeued, Head(message_queue).message.header.msg_id)
               /\ wtask' = Head(message_queue)
               /\ wpc' = "communicate"]_vars
    /\ \A k \in 1..MaxTasks : Queued(k) ~> Attempted(k)

\* Every submission has been taken from the queue, the earlier one's
\* exchange or callback having raised.
C15_Witness ==
    /\ Len(dequeued) = MaxTasks
    /\ message_queue = <<>>
    /\ printed # <<>>


\* run()'s exchange sits in sock.recv() on a channel that is open and has
\* fallen silent before any "_reply" frame.
Hung ==
    /\ wpc = "communicate"
    /\ wsock.chan # None
    /\ wsock.chan.open = "ok" /\ wsock.chan.end = "hang"
    /\ FirstTopReply(wsock.chan.frames) = 0

\* C16: once the worker's exchange sits on an open channel that sends no
\* "_reply" frame, it stays there: the worker keeps processing the same
\* task, nothing more is dequeued, no callback fires, and the queue only
\* grows; execute_code still succeeds (while the model has submissions left).
C16_NoTimeout ==
    /\ [][Hung =>
            /\ Hung'
            /\ Processing(wtask.message.header.msg_id)'
            /\ UNCHANGED <<wtask, wsock, dequeued, fired, last_cb, printed>>
            /\ Len(message_queue') >= Len(message_queue)]_vars
    /\ [](Hung /\ Len(message_queue) + Len(dequeued) < MaxTasks =>
            \A code \in Codes : ENABLED ExecuteCode(code))

\* The worker hangs after a frame that is no reply, with a task queued
\* behind the one it holds.
C16_Witness ==
    /\ Hung
    /\ wsock.chan.frames # <<>>
    /\ message_queue # <<>>


\* The callback that fired last belongs to the task run() still holds.
LastFiredIsTask ==
    /\ last_cb # None /\ wtask # None /\ fired # <<>>
    /\ fired[Len(fired)].msg_id = wtask.message.header.msg_id

\* C17: with exactly one execute_result in the reply, each MIME key of its
\* payload is looked up in the result registry only: a key with an entry
\* there gets that entry's handler, called with the code of the submission
\* the callback was made for and the key's value; a key without one gets no
\* call, even if the display registry has it.  The keys of display_data
\* payloads get display handlers only.
C17_ResultRegistryAndCode ==
    (LastFiredIsTask
       /\ Cardinality(OfType(last_cb.reply, MSG_TYPE_EXECUTE_RESULT)) = 1) =>
        LET res == EventsOf(last_cb.acc.trace, "result")
            dis == EventsOf(last_cb.acc.trace, "display")
            items == ResultItems(last_cb.reply)
        IN  /\ Len(res) <= Len(items)
            /\ \A k \in DOMAIN res :
                  /\ res[k].mime = items[k].mime
                  /\ (res[k].ev = "call") <=> (items[k].mime \in DOMAIN run_commands)
                  /\ res[k].ev = "call" =>
                        /\ res[k].handler = run_commands[items[k].mime]
                        /\ res[k].args = <<wtask.message.content.code, items[k].val>>
            /\ \A k \in DOMAIN dis :
                  /\ (dis[k].ev = "call") <=> (dis[k].mime \in DOMAIN handle_display_data)
                  /\ dis[k].ev = "call" => dis[k].handler = handle_display_data[dis[k].mime]

\* The callback of one submission has called the text handler with its own
\* code while a submission with another code waits in the queue; the
\* image/png key of the result, which only the display registry has, got no
\* call.
C17_Witness ==
    /\ LastFiredIsTask
    /\ message_queue # <<>>
    /\ message_queue[1].callback.code # wtask.message.content.code
    /\ \E k \in DOMAIN last_cb.acc.trace :
          LET e == last_cb.acc.trace[k]
          IN  e.reg = "result" /\ e.ev = "call" /\ e.args[1] = wtask.message.content.code
    /\ \E k \in DOMAIN last_cb.acc.trace :
          LET e == last_cb.acc.trace[k]
          IN  e.reg = "result" /\ e.ev = "skip" /\ e.mime \in DOMAIN handle_display_data

\* C18: no step of execute_code, get_complete, the worker or a callback
\* adds, removes or replaces an entry of either handler registry.
C18_RegistriesReadOnly ==
    [][handle_display_data' = handle_display_data /\ run_commands' = run_commands]_vars

\* Handlers of both registries have been called by a callback, and a
\* get_complete call has ended.
C18_Witness ==
    /\ last_cb # None
    /\ \E k \in DOMAIN last_cb.acc.trace : IsCall(last_cb.acc.trace[k], "display")
    /\ \E k \in DOMAIN last_cb.acc.trace : IsCall(last_cb.acc.trace[k], "result")
    /\ \E c \in Callers : Ended(c)
    /\ DOMAIN handle_display_data = {"image/png"}
    /\ DOMAIN run_commands = {"text/plain"}


\* C19: a reply without an execute_result envelope makes the callback
\* return normally after the display step, no result handler called,
\* whatever display_data envelopes it holds.
C19_Original ==
    (last_cb # None /\ OfType(last_cb.reply, MSG_TYPE_EXECUTE_RESULT) = {}) =>
        /\ last_cb.acc.status = "ok"
        /\ EventsOf(last_cb.acc.trace, "result") = <<>>

\* The handler outcomes with every KeyError replaced by a normal return.
WithoutKeyErrors(outs) ==
    [j \in DOMAIN outs |-> IF outs[j] = "KeyError" THEN "ok" ELSE outs[j]]
\* What the callback's caller and the later handlers can tell of an event.
Seen(e) == [ev |-> e.ev, reg |-> e.reg, mime |-> e.mime, handler |-> e.handler,
            args |-> e.args]

\* C20: a KeyError raised inside a handler never leaves the callback, and
\* the callback goes on as after a key without handler: it ends the same
\* way, having tried the same keys with the same handlers, as it would had
\* the handler returned.
C20_HandlerKeyErrorSwallowed ==
    last_cb # None =>
        LET acc == last_cb.acc
            same == callback(last_cb.code, last_cb.reply, WithoutKeyErrors(last_cb.outs))
        IN  /\ acc.status # "KeyError"
            /\ acc.status = same.status
            /\ acc.n = same.n
            /\ Len(acc.trace) = Len(same.trace)
            /\ \A k \in DOMAIN acc.trace : Seen(acc.trace[k]) = Seen(same.trace[k])

\* The first display handler called raised KeyError; the keys after it, in
\* its block and in the next, were tried and the callback returned normally.
C20_Witness ==
    /\ last_cb # None
    /\ last_cb.acc.status = "ok"
    /\ Len(last_cb.acc.trace) >= 4
    /\ \E k \in DOMAIN last_cb.acc.trace :
          /\ IsCall(last_cb.acc.trace[k], "display")
          /\ last_cb.acc.trace[k].out = "KeyError"
          /\ \E m \in DOMAIN last_cb.acc.trace :
                m > k /\ IsCall(last_cb.acc.trace[m], "display")

=============================================================================
